---- MODULE Spec2Model ----
(***************************************************************************)
(* Model of the headless CAN acquisition service (headless_gather.py):     *)
(* the outer trial loop of main, read_can_messages, the two debounced      *)
(* power waits detect_power / detect_power_off, and the batch drain.       *)
(***************************************************************************)
EXTENDS Integers, Sequences, FiniteSets, TLC

\* ---------------------------------------------------------------- bounds
MaxTrials == 2
HistLen == 3
MaxPushed == 2
MaxQueued == 123

\* ------------------------------------------------------ program constants
POWER_THRESHOLD == 100
POWER_OFF_THRESHOLD == 50
required_readings == 3
BatchSize == 50
PowerMsgId == 390

\* Message ids seen on the bus: the power-status PDO and another one.
MsgIds == {390, 646}

\* msg.data[6:8] of the power-status frames seen on the bus; a frame with
\* fewer than 8 data bytes gives a slice shorter than 2 bytes.
Payloads == { <<255, 255>>, <<50, 0>>, <<100, 0>>, <<101, 0>>, <<7>> }

\* What one ch.read() can produce: a frame (with its id), or an exception
\* (CanNoMsg, another bus error, KeyboardInterrupt).
ReadResults ==
    [kind : {"frame"}, id : MsgIds] \cup [kind : {"nomsg", "error", "kbint"}, id : {0}]

\* if msg.id == 390
IsPowerMsg(id) == id = PowerMsgId

\* Class of a poll of a power wait.
PollKind(k) ==
    IF k.kind = "frame"
    THEN (IF IsPowerMsg(k.id) THEN "frame390" ELSE "other")
    ELSE k.kind

\* ------------------------------------------------------------ pure helpers
\* struct.unpack('<h', msg.data[6:8])[0]: little-endian signed 16 bit.
Voltage(p) ==
    LET u == p[1] + 256 * p[2]
    IN  IF u >= 32768 THEN u - 65536 ELSE u

\* Variant: the comparison is not strict.
PowerOnQualifies_ge(v) == v >= POWER_THRESHOLD

\* voltage > POWER_THRESHOLD
PowerOnQualifies(v) == v > POWER_THRESHOLD

\* Variant: the comparison is not strict.
PowerOffQualifies_le(v) == v <= POWER_OFF_THRESHOLD

\* voltage < POWER_OFF_THRESHOLD
PowerOffQualifies(v) == v < POWER_OFF_THRESHOLD

\* The history keeps the last HistLen voltages read by a wait.
Window(s) == IF Len(s) <= HistLen THEN s ELSE SubSeq(s, Len(s) - HistLen + 1, Len(s))

\* consecutive_readings after one reading from message 390.
CountAfterReading(c, q) == IF q THEN c + 1 ELSE 0

\* Variant: a poll without a reading resets the counter.
CountAfterNoReading_reset(c) == 0

\* consecutive_readings after a poll that produced no reading
\* (frame with another id, or CanNoMsg): the code does not touch it.
CountAfterNoReading(c) == c

\* if consecutive_readings >= required_readings: return True
Detected(c) == c >= required_readings

\* Variant: the wait never looks at the flag.
WaitContinues_always(r) == TRUE

\* `while running:` of the two waits.
WaitContinues(r) == r

\* Variant: only bus errors are caught.
Handler_canOnly(e) == IF e = "CanlibException" THEN "m_except" ELSE "crashed"

\* `except Exception` of the outer loop: which exceptions it catches.
ExceptionClasses == {"CanlibException", "struct.error", "DatabaseError"}
Handler(e) == IF e \in ExceptionClasses THEN "m_except" ELSE "crashed"

\* can_queue.put(f) of queue.Queue: at the tail.
QueuePut(q, f) == Append(q, f)

\* Variant: the queue hands out the newest frame first.
QueueHead_newest(q) == q[Len(q)]

\* can_queue.get() of queue.Queue: the oldest frame, which leaves the queue.
QueueHead(q) == Head(q)
QueueRest(q) == Tail(q)

\* Variant: off by one.
BatchFull_gt(b) == Len(b) > BatchSize

\* len(batch) >= 50
BatchFull(b) == Len(b) >= BatchSize

\* Variant: a partial batch is not flushed.
FinalFlushNeeded_fullOnly(b) == Len(b) >= BatchSize

\* `if batch:` before the final store.
FinalFlushNeeded(b) == b # <<>>

\* Variant: the outer loop never looks at the flag.
LoopContinues_always(r) == TRUE

\* `while running:` of the outer loop.
LoopContinues(r) == r

VARIABLES
    running,                \* global stop flag (False once a signal arrived)
    pc,                     \* position of the main thread
    trial_number,           \* local of main
    nextTrial,              \* persisted trial counter behind get_next_trial_number
    can_queue,              \* the process-wide queue
    batch,                  \* local of main
    consecutive_readings,   \* local of the running power wait
    ret,                    \* value returned by the last power wait
    exc,                    \* class of the last exception raised
    ch,                     \* state of the channel handle of each opener
    poll,                   \* outcome of the last ch.read() of a power wait
    readings,               \* history: last voltages read by the running wait
    wait,                   \* history: which wait `readings` belongs to
    stores,                 \* history: every store_data_for_trial call
    nPushed,                \* history: number of can_queue.put calls
    cleanCycle,             \* history: no exception yet in this loop pass
    stopInAwait,            \* history: flag raised during this pass's power-on wait
    stopInWait,             \* history: flag raised during the running power wait
    cycleStores,            \* history: store calls made in this loop pass
    dec,                    \* a frame, what decode_data makes of it, and the
                            \* voltage the power waits read from it
    trialLog,               \* history: trials exported and trials failed, in order
    collected               \* history of the running collecting loop: frames it
                            \* pushed, KeyboardInterrupt inside its power-off wait

vars == << running, pc, trial_number, nextTrial, can_queue, batch,
           consecutive_readings, ret, exc, ch, poll, readings, wait,
           stores, nPushed, cleanCycle, stopInAwait, stopInWait,
           cycleStores, dec, trialLog, collected >>

Owners == {"dp", "rc", "po"}

\* A handle is "closed" (not open, or closed after ch.busOff()), "on" (open,
\* bus on), "off" (open, after ch.busOff()), or "dropped" (closed by its with
\* block while still on the bus, ch.busOff() never having been called).
\* ch.busOn()
BusOn(h) == "on"

\* ch.busOff()
BusOff(h) == "off"

\* Leaving `with canlib.openChannel(...) as ch:` closes the handle.
Close(h) == IF h = "on" THEN "dropped" ELSE IF h = "off" THEN "closed" ELSE h
WaitPcs == {"dp_open", "dp_check", "dp_read", "po_open", "po_check", "po_read"}
AllClosed == [o \in Owners |-> "closed"]

\* No frame is being decoded.
\* No result yet (decode_data not called, voltage not read).
NotDone == [done |-> FALSE, raised |-> FALSE]

NoFrame == [id |-> 0, data |-> <<>>, out |-> NotDone, volt |-> NotDone]

\* No collecting loop is running.
NoCollect == [pushed |-> 0, kbint |-> FALSE]

Init ==
    /\ running = TRUE
    /\ pc = "m_check"
    /\ trial_number = 0
    /\ nextTrial = 1
    /\ can_queue = <<>>
    /\ batch = <<>>
    /\ consecutive_readings = 0
    /\ ret = "none"
    /\ exc = "none"
    /\ ch = AllClosed
    /\ poll = "none"
    /\ readings = <<>>
    /\ wait = "none"
    /\ stores = <<>>
    /\ nPushed = 0
    /\ cleanCycle = TRUE
    /\ stopInAwait = FALSE
    /\ stopInWait = FALSE
    /\ cycleStores = 0
    /\ dec = NoFrame
    /\ trialLog = <<>>
    /\ collected = NoCollect

\* An exception of class e leaves the current frame: every `with` block being
\* unwound closes its handle, and main's try statement picks the handler.
Raise(e) ==
    /\ exc' = e
    /\ pc' = Handler(e)
    /\ ch' = [o \in Owners |-> Close(ch[o])]
    /\ cleanCycle' = FALSE

\* The frame of a finished power wait is gone: its locals and its result,
\* once the caller has used it, no longer exist.
WaitFrameGone ==
    /\ consecutive_readings' = 0
    /\ ret' = "none"
    /\ poll' = "none"
    /\ readings' = <<>>
    /\ wait' = "none"
    /\ stopInWait' = FALSE

\* signal_handler: running = False.  It can run between any two steps.
signal_handler ==
    /\ running = TRUE
    /\ pc \notin {"exit", "crashed"}
    /\ running' = FALSE
    /\ stopInAwait' = (stopInAwait \/ pc \in {"dp_open", "dp_check", "dp_read"})
    /\ stopInWait' = (pc \in WaitPcs)
    /\ UNCHANGED << collected, dec, trialLog, pc, trial_number, nextTrial, can_queue, batch,
                    consecutive_readings, ret, exc, ch, poll, readings, wait,
                    stores, nPushed, cleanCycle, cycleStores >>

\* ------------------------------------------------------------ main (outer loop)
\* `while running:` at the top of the outer loop.
main_check ==
    /\ pc = "m_check"
    /\ IF LoopContinues(running)
       THEN /\ nextTrial <= MaxTrials
            /\ pc' = "m_trial"
            /\ cleanCycle' = TRUE
            /\ stopInAwait' = FALSE
            /\ cycleStores' = 0
       ELSE /\ pc' = "exit"
            /\ UNCHANGED << cleanCycle, stopInAwait, cycleStores >>
    /\ UNCHANGED << collected, dec, trialLog, stopInWait, running, trial_number, nextTrial, can_queue, batch,
                    consecutive_readings, ret, exc, ch, poll, readings, wait,
                    stores, nPushed >>

\* get_next_trial_number(): monotonically increasing, persisted externally.
get_next_trial_number ==
    /\ trial_number' = nextTrial
    /\ nextTrial' = nextTrial + 1

\* Variant: the number obtained before the loop is kept for every pass.
main_trial_once ==
    /\ pc = "m_trial"
    /\ pc' = "m_create"
    /\ UNCHANGED << collected, trial_number, nextTrial, exc, ch, cleanCycle, dec, trialLog,
                    stopInWait, running, can_queue, batch,
                    consecutive_readings, ret, poll, readings, wait, stores,
                    nPushed, stopInAwait, cycleStores >>

\* trial_number = get_next_trial_number()
main_trial ==
    /\ pc = "m_trial"
    /\ \/ /\ get_next_trial_number
          /\ pc' = "m_create"
          /\ UNCHANGED << exc, ch, cleanCycle >>
       \/ /\ Raise("DatabaseError")
          /\ UNCHANGED << trial_number, nextTrial >>
    /\ UNCHANGED << collected, dec, trialLog, stopInWait, running, can_queue, batch, consecutive_readings, ret,
                    poll, readings, wait, stores, nPushed, stopInAwait,
                    cycleStores >>

\* create_table_for_trial(trial_number), then the call of read_can_messages,
\* which starts with the call of detect_power.
main_create ==
    /\ pc = "m_create"
    /\ \/ /\ pc' = "dp_open"
          /\ UNCHANGED << exc, ch, cleanCycle >>
       \/ Raise("DatabaseError")
    /\ UNCHANGED << collected, dec, trialLog, stopInWait, running, trial_number, nextTrial, can_queue, batch,
                    consecutive_readings, ret, poll, readings, wait, stores,
                    nPushed, stopInAwait, cycleStores >>

\* except Exception as e: print(...)
main_except ==
    /\ pc = "m_except"
    /\ pc' = "m_backoff"
    /\ WaitFrameGone
    /\ collected' = NoCollect
    /\ UNCHANGED << dec, trialLog, running, trial_number, nextTrial, can_queue, batch,
                    exc, ch, stores, nPushed, cleanCycle, stopInAwait,
                    cycleStores >>

\* time.sleep(5); continue
main_backoff ==
    /\ pc = "m_backoff"
    /\ pc' = "m_check"
    /\ exc' = "none"
    /\ UNCHANGED << collected, dec, trialLog, stopInWait, running, trial_number, nextTrial, can_queue, batch,
                    consecutive_readings, ret, ch, poll, readings, wait,
                    stores, nPushed, cleanCycle, stopInAwait, cycleStores >>

\* ------------------------------------------------------------ detect_power
\* consecutive_readings = 0; with openChannel(...) as ch: ...; ch.busOn()
detect_power_open ==
    /\ pc = "dp_open"
    /\ consecutive_readings' = 0
    /\ wait' = "on"
    /\ UNCHANGED << ret, poll, readings >>
    /\ \/ /\ ch' = [ch EXCEPT !["dp"] = BusOn(@)]
          /\ pc' = "dp_check"
          /\ UNCHANGED << exc, cleanCycle >>
       \/ Raise("CanlibException")
    /\ UNCHANGED << collected, dec, trialLog, stopInWait, running, trial_number, nextTrial, can_queue, batch,
                    stores, nPushed, stopInAwait, cycleStores >>

\* `while running:`; when it fails: ch.busOff(), leave the with, return False
detect_power_check ==
    /\ pc = "dp_check"
    /\ IF WaitContinues(running)
       THEN /\ pc' = "dp_read"
            /\ UNCHANGED << ret, ch >>
       ELSE /\ ch' = [ch EXCEPT !["dp"] = Close(BusOff(@))]
            /\ ret' = "false"
            /\ pc' = "rc_ret_power"
    /\ UNCHANGED << collected, dec, trialLog, stopInWait, running, trial_number, nextTrial, can_queue, batch,
                    consecutive_readings, exc, poll, readings, wait, stores,
                    nPushed, cleanCycle, stopInAwait, cycleStores >>

\* One pass of the try block: msg = ch.read() and what follows it.
detect_power_read ==
    /\ pc = "dp_read"
    /\ \E k \in ReadResults :
         /\ poll' = PollKind(k)
         /\ CASE PollKind(k) = "frame390" ->
                   \E p \in Payloads :
                     IF Len(p) < 2
                     THEN /\ Raise("struct.error")
                          /\ UNCHANGED << readings, consecutive_readings, ret >>
                     ELSE LET v == Voltage(p)
                              q == PowerOnQualifies(v)
                              c == CountAfterReading(consecutive_readings, q)
                          IN  /\ readings' = Window(Append(readings, v))
                              /\ consecutive_readings' = c
                              /\ IF q /\ Detected(c)
                                 THEN /\ ret' = "true"
                                      /\ ch' = [ch EXCEPT !["dp"] = Close(@)]
                                      /\ pc' = "rc_ret_power"
                                 ELSE /\ pc' = "dp_check"
                                      /\ UNCHANGED << ret, ch >>
                              /\ UNCHANGED << exc, cleanCycle >>
              [] PollKind(k) \in {"other", "nomsg"} ->
                   /\ consecutive_readings' =
                          CountAfterNoReading(consecutive_readings)
                   /\ pc' = "dp_check"
                   /\ UNCHANGED << readings, ret, ch, exc, cleanCycle >>
              [] PollKind(k) = "error" ->
                   /\ Raise("CanlibException")
                   /\ UNCHANGED << readings, consecutive_readings, ret >>
              [] PollKind(k) = "kbint" ->
                   /\ ch' = [ch EXCEPT !["dp"] = Close(BusOff(@))]
                   /\ ret' = "false"
                   /\ pc' = "rc_ret_power"
                   /\ UNCHANGED << readings, consecutive_readings, exc,
                                   cleanCycle >>
    /\ UNCHANGED << collected, dec, trialLog, stopInWait, running, trial_number, nextTrial, can_queue, batch, wait,
                    stores, nPushed, stopInAwait, cycleStores >>

\* ------------------------------------------------------- read_can_messages
\* if not detect_power(channel): return
read_can_messages_power ==
    /\ pc = "rc_ret_power"
    /\ pc' = IF ret = "true" THEN "rc_open" ELSE "m_drain"
    /\ WaitFrameGone
    /\ UNCHANGED << collected, dec, trialLog, running, trial_number, nextTrial, can_queue, batch,
                    exc, ch, stores, nPushed, cleanCycle, stopInAwait,
                    cycleStores >>

\* with canlib.openChannel(...) as ch: ...; ch.busOn()
read_can_messages_open ==
    /\ pc = "rc_open"
    /\ \/ /\ ch' = [ch EXCEPT !["rc"] = BusOn(@)]
          /\ pc' = "rc_check"
          /\ UNCHANGED << exc, cleanCycle >>
       \/ Raise("CanlibException")
    /\ UNCHANGED << collected, dec, trialLog, stopInWait, running, trial_number, nextTrial, can_queue, batch,
                    consecutive_readings, ret, poll, readings, wait, stores,
                    nPushed, stopInAwait, cycleStores >>

\* ch.busOff(), then the with block closes the handle and the function returns
read_can_messages_leave ==
    /\ ch' = [ch EXCEPT !["rc"] = Close(BusOff(@))]
    /\ pc' = "m_drain"
    /\ collected' = NoCollect

\* `while running:` of the collecting loop
read_can_messages_check ==
    /\ pc = "rc_check"
    /\ IF WaitContinues(running)
       THEN /\ pc' = "rc_read"
            /\ UNCHANGED << ch, collected >>
       ELSE read_can_messages_leave
    /\ UNCHANGED << dec, trialLog, stopInWait, running, trial_number, nextTrial, can_queue, batch,
                    consecutive_readings, ret, exc, poll, readings, wait,
                    stores, nPushed, cleanCycle, stopInAwait, cycleStores >>

\* Variant: the loop reads on without calling the power-off wait.
AfterRead_noWait(k) == "rc_check"

\* Variant: a frame just read is handed to the batching loop at once.
AfterRead_storeNow(k) == IF k = "frame" THEN "m_loop" ELSE "rc_check"

\* Variant: the power-off wait is called after a read without a message too.
AfterRead_offAlways(k) == "po_open"

\* Where the body of the collecting loop goes after ch.read(): on to the call
\* of detect_power_off after a frame, back to the loop condition after
\* CanNoMsg.
AfterRead(k) == IF k = "frame" THEN "po_open" ELSE "rc_check"

\* msg = ch.read(); msg_data = format_can_message(msg); can_queue.put(msg_data)
\* and then the call of detect_power_off; or one of the except clauses.
read_can_messages_read ==
    /\ pc = "rc_read"
    /\ \/ /\ nPushed < MaxPushed
          /\ can_queue' = QueuePut(can_queue, nPushed + 1)
          /\ nPushed' = nPushed + 1
          /\ pc' = AfterRead("frame")
          /\ collected' = [collected EXCEPT !.pushed = @ + 1]
          /\ UNCHANGED << exc, ch, cleanCycle >>
       \/ /\ pc' = AfterRead("nomsg")    \* except canlib.CanNoMsg: pass
          /\ UNCHANGED << can_queue, nPushed, exc, ch, cleanCycle, collected >>
       \/ /\ read_can_messages_leave     \* except KeyboardInterrupt: break
          /\ UNCHANGED << can_queue, nPushed, exc, cleanCycle >>
       \/ /\ Raise("CanlibException")
          /\ UNCHANGED << can_queue, nPushed, collected >>
    /\ UNCHANGED << dec, trialLog, stopInWait, running, trial_number, nextTrial, batch,
                    consecutive_readings, ret, poll, readings, wait, stores,
                    stopInAwait, cycleStores >>

\* if detect_power_off(channel): break
read_can_messages_off ==
    /\ pc = "rc_ret_off"
    /\ IF ret = "true"
       THEN read_can_messages_leave
       ELSE /\ pc' = "rc_check"
            /\ UNCHANGED << ch, collected >>
    /\ WaitFrameGone
    /\ UNCHANGED << dec, trialLog, running, trial_number, nextTrial, can_queue, batch,
                    exc, stores, nPushed, cleanCycle, stopInAwait,
                    cycleStores >>

\* -------------------------------------------------------- detect_power_off
detect_power_off_open ==
    /\ pc = "po_open"
    /\ consecutive_readings' = 0
    /\ wait' = "off"
    /\ UNCHANGED << ret, poll, readings >>
    /\ \/ /\ ch' = [ch EXCEPT !["po"] = BusOn(@)]
          /\ pc' = "po_check"
          /\ UNCHANGED << exc, cleanCycle >>
       \/ Raise("CanlibException")
    /\ UNCHANGED << collected, dec, trialLog, stopInWait, running, trial_number, nextTrial, can_queue, batch,
                    stores, nPushed, stopInAwait, cycleStores >>

detect_power_off_check ==
    /\ pc = "po_check"
    /\ IF WaitContinues(running)
       THEN /\ pc' = "po_read"
            /\ UNCHANGED << ret, ch >>
       ELSE /\ ch' = [ch EXCEPT !["po"] = Close(BusOff(@))]
            /\ ret' = "false"
            /\ pc' = "rc_ret_off"
    /\ UNCHANGED << collected, dec, trialLog, stopInWait, running, trial_number, nextTrial, can_queue, batch,
                    consecutive_readings, exc, poll, readings, wait, stores,
                    nPushed, cleanCycle, stopInAwait, cycleStores >>

\* Variant: the power-off wait puts every frame it reads on the queue.
detect_power_off_read_put ==
    /\ pc = "po_read"
    /\ \E k \in ReadResults :
         /\ poll' = PollKind(k)
         /\ CASE PollKind(k) = "frame390" ->
                   \E p \in Payloads :
                     IF Len(p) < 2
                     THEN /\ Raise("struct.error")
                          /\ UNCHANGED << readings, consecutive_readings, ret,
                                          collected >>
                     ELSE LET v == Voltage(p)
                              q == PowerOffQualifies(v)
                              c == CountAfterReading(consecutive_readings, q)
                          IN  /\ readings' = Window(Append(readings, v))
                              /\ consecutive_readings' = c
                              /\ IF q /\ Detected(c)
                                 THEN /\ ret' = "true"
                                      /\ ch' = [ch EXCEPT !["po"] = Close(@)]
                                      /\ pc' = "rc_ret_off"
                                 ELSE /\ pc' = "po_check"
                                      /\ UNCHANGED << ret, ch >>
                              /\ UNCHANGED << exc, cleanCycle, collected >>
              [] PollKind(k) \in {"other", "nomsg"} ->
                   /\ consecutive_readings' =
                          CountAfterNoReading(consecutive_readings)
                   /\ pc' = "po_check"
                   /\ UNCHANGED << readings, ret, ch, exc, cleanCycle,
                                   collected >>
              [] PollKind(k) = "error" ->
                   /\ Raise("CanlibException")
                   /\ UNCHANGED << readings, consecutive_readings, ret,
                                   collected >>
              [] PollKind(k) = "kbint" ->
                   /\ ch' = [ch EXCEPT !["po"] = Close(BusOff(@))]
                   /\ ret' = "false"
                   /\ pc' = "rc_ret_off"
                   /\ collected' = [collected EXCEPT !.kbint = TRUE]
                   /\ UNCHANGED << readings, consecutive_readings, exc,
                                   cleanCycle >>
    /\ can_queue' = IF poll' \in {"frame390", "other"}
                    THEN QueuePut(can_queue, 0)
                    ELSE can_queue
    /\ UNCHANGED << dec, trialLog, stopInWait, running, trial_number, nextTrial, batch, wait,
                    stores, nPushed, stopInAwait, cycleStores >>

\* One poll of detect_power_off: msg = ch.read() and what follows it.
detect_power_off_read ==
    /\ pc = "po_read"
    /\ \E k \in ReadResults :
         /\ poll' = PollKind(k)
         /\ CASE PollKind(k) = "frame390" ->
                   \E p \in Payloads :
                     IF Len(p) < 2
                     THEN /\ Raise("struct.error")
                          /\ UNCHANGED << readings, consecutive_readings, ret,
                                          collected >>
                     ELSE LET v == Voltage(p)
                              q == PowerOffQualifies(v)
                              c == CountAfterReading(consecutive_readings, q)
                          IN  /\ readings' = Window(Append(readings, v))
                              /\ consecutive_readings' = c
                              /\ IF q /\ Detected(c)
                                 THEN /\ ret' = "true"
                                      /\ ch' = [ch EXCEPT !["po"] = Close(@)]
                                      /\ pc' = "rc_ret_off"
                                 ELSE /\ pc' = "po_check"
                                      /\ UNCHANGED << ret, ch >>
                              /\ UNCHANGED << exc, cleanCycle, collected >>
              [] PollKind(k) \in {"other", "nomsg"} ->
                   /\ consecutive_readings' =
                          CountAfterNoReading(consecutive_readings)
                   /\ pc' = "po_check"
                   /\ UNCHANGED << readings, ret, ch, exc, cleanCycle,
                                   collected >>
              [] PollKind(k) = "error" ->
                   /\ Raise("CanlibException")
                   /\ UNCHANGED << readings, consecutive_readings, ret,
                                   collected >>
              [] PollKind(k) = "kbint" ->
                   /\ ch' = [ch EXCEPT !["po"] = Close(BusOff(@))]
                   /\ ret' = "false"
                   /\ pc' = "rc_ret_off"
                   /\ collected' = [collected EXCEPT !.kbint = TRUE]
                   /\ UNCHANGED << readings, consecutive_readings, exc,
                                   cleanCycle >>
    /\ UNCHANGED << dec, trialLog, stopInWait, running, trial_number, nextTrial, can_queue, batch, wait,
                    stores, nPushed, stopInAwait, cycleStores >>

\* ------------------------------------------------------------ main (drain)
\* batch = []
main_drain ==
    /\ pc = "m_drain"
    /\ batch' = <<>>
    /\ pc' = "m_loop"
    /\ UNCHANGED << collected, dec, trialLog, stopInWait, running, trial_number, nextTrial, can_queue,
                    consecutive_readings, ret, exc, ch, poll, readings, wait,
                    stores, nPushed, cleanCycle, stopInAwait, cycleStores >>

\* store_data_for_trial(b, trial_number): the call is made; it returns or raises.
store_data_for_trial(b, ok) ==
    /\ stores' = Append(stores, [trial |-> trial_number, batch |-> b, ok |-> ok])
    /\ cycleStores' = cycleStores + 1
    /\ IF ok THEN UNCHANGED << exc, ch, cleanCycle >>
             ELSE Raise("DatabaseError")

\* One pass of `while not can_queue.empty():`
main_loop ==
    /\ pc = "m_loop"
    /\ IF can_queue # <<>>
       THEN LET b == Append(batch, QueueHead(can_queue))
            IN  /\ can_queue' = QueueRest(can_queue)
                /\ IF BatchFull(b)
                   THEN \E ok \in BOOLEAN :
                          /\ store_data_for_trial(b, ok)
                          /\ batch' = IF ok THEN <<>> ELSE b
                          /\ ok => pc' = "m_loop"
                   ELSE /\ batch' = b
                        /\ pc' = "m_loop"
                        /\ UNCHANGED << stores, cycleStores, exc, ch,
                                        cleanCycle >>
       ELSE /\ pc' = "m_final"
            /\ UNCHANGED << can_queue, batch, stores, cycleStores, exc, ch,
                            cleanCycle >>
    /\ UNCHANGED << collected, dec, trialLog, stopInWait, running, trial_number, nextTrial, consecutive_readings,
                    ret, poll, readings, wait, nPushed, stopInAwait >>

\* if batch: store_data_for_trial(batch, trial_number)
main_final ==
    /\ pc = "m_final"
    /\ IF FinalFlushNeeded(batch)
       THEN \E ok \in BOOLEAN :
              /\ store_data_for_trial(batch, ok)
              /\ ok => pc' = "m_check"
       ELSE /\ pc' = "m_check"
            /\ UNCHANGED << stores, cycleStores, exc, ch, cleanCycle >>
    /\ UNCHANGED << collected, dec, trialLog, stopInWait, running, trial_number, nextTrial, can_queue, batch,
                    consecutive_readings, ret, poll, readings, wait, nPushed,
                    stopInAwait >>

\* ------------------------------------------------------------ specification
Next ==
    \/ signal_handler
    \/ main_check
    \/ main_trial
    \/ main_create
    \/ detect_power_open
    \/ detect_power_check
    \/ detect_power_read
    \/ read_can_messages_power
    \/ read_can_messages_open
    \/ read_can_messages_check
    \/ read_can_messages_read
    \/ read_can_messages_off
    \/ detect_power_off_open
    \/ detect_power_off_check
    \/ detect_power_off_read
    \/ main_drain
    \/ main_loop
    \/ main_final
    \/ main_except
    \/ main_backoff

Spec == Init /\ [][Next]_vars

\* Every step of the program itself (all but the arrival of a signal).
ProgramNext ==
    \/ main_check
    \/ main_trial
    \/ main_create
    \/ detect_power_open
    \/ detect_power_check
    \/ detect_power_read
    \/ read_can_messages_power
    \/ read_can_messages_open
    \/ read_can_messages_check
    \/ read_can_messages_read
    \/ read_can_messages_off
    \/ detect_power_off_open
    \/ detect_power_off_check
    \/ detect_power_off_read
    \/ main_drain
    \/ main_loop
    \/ main_final
    \/ main_except
    \/ main_backoff

\* The single thread keeps running: every poll, read, sleep and store call
\* terminates, so the program takes its next step whenever it has one.
FairSpec == Spec /\ WF_vars(ProgramNext)

\* ------------------------------------------------ drain of a filled queue
\* The drain of main entered with any number of frames on the queue,
\* numbered in push order.
InitDrain ==
    /\ running = TRUE
    /\ pc = "m_drain"
    /\ trial_number = 1
    /\ nextTrial = 2
    /\ \E n \in 0..MaxQueued :
         /\ can_queue = [i \in 1..n |-> i]
         /\ nPushed = n
    /\ batch = <<>>
    /\ consecutive_readings = 0
    /\ ret = "none"
    /\ exc = "none"
    /\ ch = AllClosed
    /\ poll = "none"
    /\ readings = <<>>
    /\ wait = "none"
    /\ stores = <<>>
    /\ cleanCycle = TRUE
    /\ stopInAwait = FALSE
    /\ stopInWait = FALSE
    /\ cycleStores = 0
    /\ dec = NoFrame
    /\ trialLog = <<>>
    /\ collected = NoCollect

NextDrain ==
    \/ main_drain
    \/ main_loop
    \/ main_final

SpecDrain == InitDrain /\ [][NextDrain]_vars

\* ------------------------------------------------------------ decode_data
\* Longest payload of a frame (classic CAN).
MaxDlc == 8

\* value_range_map, in insertion order.  `tuple` tells whether the key holds
\* a pair of byte indices or a single index.
Field(cob, tuple, start, end, type, name, range) ==
    [cob |-> cob, tuple |-> tuple, start |-> start, end |-> end,
     type |-> type, name |-> name, range |-> range]

value_range_map == <<
    Field(390, TRUE, 0, 1, "U16", "Status word", "0-65535"),
    Field(390, TRUE, 2, 3, "S16", "Actual speed", "-32768 to 32767"),
    Field(390, TRUE, 4, 5, "U16", "RMS motor Current", "0-65535"),
    Field(390, TRUE, 6, 7, "S16", "DC Bus Voltage", "-32768 to 32767"),
    Field(646, TRUE, 0, 1, "S16", "Internal Speed Reference", "-32768 to 32767"),
    Field(646, TRUE, 2, 3, "S16", "Reference Torque", "-32768 to 32767"),
    Field(646, TRUE, 4, 5, "S16", "Actual Torque", "-32768 to 32767"),
    Field(646, TRUE, 6, 7, "S16", "Field weakening control: voltage angle", "-32768 to 32767"),
    Field(902, FALSE, 0, 0, "U8", "Field weakening control: regulator status", "0-255"),
    Field(902, FALSE, 1, 1, "U8", "Current limit: actual limit type", "0-15"),
    Field(902, TRUE, 2, 3, "S16", "Motor voltage control: U peak normalized", "-32768 to 32767"),
    Field(902, TRUE, 4, 5, "U16", "Digital status word", "0-65535"),
    Field(902, TRUE, 6, 7, "S16", "Scaled throttle percent", "-32768 to 32767"),
    Field(1158, TRUE, 0, 1, "S16", "Motor voltage control: idLimit", "-32768 to 32767"),
    Field(1158, TRUE, 2, 3, "S16", "Motor voltage control: Idfiltered", "-32768 to 32767"),
    Field(1158, TRUE, 4, 5, "S16", "Actual currents: iq", "-32768 to 32767"),
    Field(1158, TRUE, 6, 7, "S16", "Motor measurements: DC bus current", "-32768 to 32767") >>

\* data_bytes[a:b] of Python: indices from 0, clamped to the length.
PySlice(d, a, b) ==
    LET hi == IF b < Len(d) THEN b ELSE Len(d)
    IN  IF a >= hi THEN <<>> ELSE SubSeq(d, a + 1, hi)

\* Variant: only the first index of a pair is checked against the length.
RangeSkips_startOnly(f, n) == f.start >= n

\* The bounds check of decode_data: `continue` when the byte index, or one
\* index of the pair, is not inside a payload of n bytes.
RangeSkips(f, n) ==
    IF f.tuple THEN (f.start >= n \/ f.end >= n) ELSE f.start >= n

\* Variant: the two bytes are read as an unsigned number.
Unpack_be_h_unsigned(bs) == bs[1] * 256 + bs[2]

\* struct.unpack('>h', bs)[0]: big-endian signed 16 bit.
Unpack_be_h(bs) ==
    LET u == bs[1] * 256 + bs[2]
    IN  IF u >= 32768 THEN u - 65536 ELSE u

\* Would computing the value of field f raise (IndexError on an index outside
\* the payload, struct.error on a slice that is not 2 bytes long)?
FieldRaises(f, d) ==
    CASE f.type = "U16" -> f.start >= Len(d) \/ f.end >= Len(d)
      [] f.type = "S16" -> Len(PySlice(d, f.start, f.end + 1)) # 2
      [] f.type \in {"U8", "0-15"} -> f.start >= Len(d)
      [] OTHER -> FALSE

\* The value computed for field f, chosen by its data type.
FieldValue(f, d) ==
    CASE f.type = "U16" -> d[f.start + 1] * 256 + d[f.end + 1]
      [] f.type = "S16" -> Unpack_be_h(PySlice(d, f.start, f.end + 1))
      [] f.type = "U8" -> d[f.start + 1]
      [] f.type = "0-15" -> d[f.start + 1] % 16
      [] OTHER -> "Unsupported data type"

\* What one pass of the for loop does with field f.
FieldStatus(f, msg_id, d) ==
    IF msg_id # f.cob THEN "skip"
    ELSE IF RangeSkips(f, Len(d)) THEN "skip"
    ELSE IF FieldRaises(f, d) THEN "raise"
    ELSE "ok"

\* decode_data(msg_id, data_bytes): the dict data_values, or an exception.
decode_data(msg_id, d) ==
    LET idx == DOMAIN value_range_map
        ok == { i \in idx : FieldStatus(value_range_map[i], msg_id, d) = "ok" }
        raised == \E i \in idx : FieldStatus(value_range_map[i], msg_id, d) = "raise"
        names == { value_range_map[i].name : i \in ok }
        last(nm) == CHOOSE i \in ok :
                       /\ value_range_map[i].name = nm
                       /\ \A j \in ok : value_range_map[j].name = nm => j <= i
    IN  [ done |-> TRUE,
          raised |-> raised,
          values |-> IF raised THEN <<>>
                     ELSE [ nm \in names |->
                              [ value |-> FieldValue(value_range_map[last(nm)], d),
                                range |-> value_range_map[last(nm)].range ] ] ]

\* voltage = struct.unpack('<h', msg.data[6:8])[0] of the two power waits.
wait_voltage(d) ==
    LET bs == PySlice(d, 6, 8)
    IN  IF Len(bs) # 2
        THEN [done |-> TRUE, raised |-> TRUE, value |-> 0]
        ELSE [done |-> TRUE, raised |-> FALSE, value |-> Voltage(bs)]

\* Frames handed to the decoder: every id of the map and one unmapped id,
\* every length, and payloads <<hi, lo, hi, lo, ...>> over byte pairs in which
\* one byte takes every value and the other the interesting ones.
DecodeIds == {390, 646, 902, 1158, 1}
Bytes == 0..255
ByteSamples == {0, 1, 15, 16, 127, 128, 243, 255}
BytePairs == (Bytes \X ByteSamples) \cup (ByteSamples \X Bytes)
PatternData(hi, lo, n) == [i \in 1..n |-> IF i % 2 = 1 THEN hi ELSE lo]

InitDecode ==
    /\ running = TRUE
    /\ pc = "format"
    /\ trial_number = 0
    /\ nextTrial = 1
    /\ can_queue = <<>>
    /\ batch = <<>>
    /\ consecutive_readings = 0
    /\ ret = "none"
    /\ exc = "none"
    /\ ch = AllClosed
    /\ poll = "none"
    /\ readings = <<>>
    /\ wait = "none"
    /\ stores = <<>>
    /\ nPushed = 0
    /\ cleanCycle = TRUE
    /\ stopInAwait = FALSE
    /\ stopInWait = FALSE
    /\ cycleStores = 0
    /\ trialLog = <<>>
    /\ collected = NoCollect
    /\ \E id \in DecodeIds, n \in 0..MaxDlc, bp \in BytePairs :
         dec = [id |-> id, data |-> PatternData(bp[1], bp[2], n),
                out |-> NotDone, volt |-> NotDone]

\* data_values = decode_data(msg.id, msg.data) of format_can_message
format_can_message ==
    /\ ~dec.out.done
    /\ dec' = [dec EXCEPT !.out = decode_data(dec.id, dec.data)]
    /\ UNCHANGED << collected, running, pc, trial_number, nextTrial, can_queue, batch,
                    consecutive_readings, ret, exc, ch, poll, readings, wait,
                    stores, nPushed, cleanCycle, stopInAwait, stopInWait,
                    cycleStores, trialLog >>

\* if msg.id == 390: voltage = struct.unpack('<h', msg.data[6:8])[0]
read_voltage ==
    /\ ~dec.volt.done
    /\ IsPowerMsg(dec.id)
    /\ dec' = [dec EXCEPT !.volt = wait_voltage(dec.data)]
    /\ UNCHANGED << collected, running, pc, trial_number, nextTrial, can_queue, batch,
                    consecutive_readings, ret, exc, ch, poll, readings, wait,
                    stores, nPushed, cleanCycle, stopInAwait, stopInWait,
                    cycleStores, trialLog >>

NextDecode ==
    \/ format_can_message
    \/ read_voltage

SpecDecode == InitDecode /\ [][NextDecode]_vars

\* ------------------------------------------ auto_data_collector.py: main
\* The exporting driver.  Its outer loop is the loop of headless_gather.main
\* with one more statement, the call of export_trial_to_csv after the final
\* flush.  Its read_can_messages calls detect_power, detect_power_off and
\* format_can_message, none of which the file defines or imports: as the file
\* stands the call raises NameError at its first statement in every pass.
\* The model lets the call raise, and also lets it behave as the acquisition
\* pipeline does (return with some frames pushed), so that what main does
\* after a return is covered too.

\* Variant: the export is made for a failed pass as well.
AutoHandler_export(e) == "a_export"

\* `except Exception as e` of the exporting driver's loop.
AutoHandler(e) == "a_except"

\* An exception reaches the handler of the loop; a pass that had obtained its
\* trial number is recorded as failed.
AutoRaise(e, numbered) ==
    /\ exc' = e
    /\ pc' = AutoHandler(e)
    /\ cleanCycle' = FALSE
    /\ trialLog' = IF numbered
                   THEN Append(trialLog, [trial |-> trial_number, how |-> "failed"])
                   ELSE trialLog

InitAuto ==
    /\ running = TRUE
    /\ pc = "a_check"
    /\ trial_number = 0
    /\ nextTrial = 1
    /\ can_queue = <<>>
    /\ batch = <<>>
    /\ consecutive_readings = 0
    /\ ret = "none"
    /\ exc = "none"
    /\ ch = AllClosed
    /\ poll = "none"
    /\ readings = <<>>
    /\ wait = "none"
    /\ stores = <<>>
    /\ nPushed = 0
    /\ cleanCycle = TRUE
    /\ stopInAwait = FALSE
    /\ stopInWait = FALSE
    /\ cycleStores = 0
    /\ dec = NoFrame
    /\ trialLog = <<>>
    /\ collected = NoCollect

\* signal_handler of the exporting driver: running = False
auto_signal_handler ==
    /\ running = TRUE
    /\ pc # "exit"
    /\ running' = FALSE
    /\ UNCHANGED << collected, pc, trial_number, nextTrial, can_queue, batch,
                    consecutive_readings, ret, exc, ch, poll, readings, wait,
                    stores, nPushed, cleanCycle, stopInAwait, stopInWait,
                    cycleStores, dec, trialLog >>

\* `while running:` of the exporting driver
auto_check ==
    /\ pc = "a_check"
    /\ IF LoopContinues(running)
       THEN /\ nextTrial <= MaxTrials
            /\ pc' = "a_trial"
            /\ cleanCycle' = TRUE
            /\ cycleStores' = 0
       ELSE /\ pc' = "exit"
            /\ UNCHANGED << cleanCycle, cycleStores >>
    /\ UNCHANGED << collected, running, trial_number, nextTrial, can_queue, batch,
                    consecutive_readings, ret, exc, ch, poll, readings, wait,
                    stores, nPushed, stopInAwait, stopInWait, dec, trialLog >>

\* trial_number = get_next_trial_number()
auto_trial ==
    /\ pc = "a_trial"
    /\ \/ /\ get_next_trial_number
          /\ pc' = "a_create"
          /\ UNCHANGED << exc, cleanCycle, trialLog >>
       \/ /\ AutoRaise("DatabaseError", FALSE)
          /\ UNCHANGED << trial_number, nextTrial >>
    /\ UNCHANGED << collected, running, can_queue, batch, consecutive_readings, ret, ch,
                    poll, readings, wait, stores, nPushed, stopInAwait,
                    stopInWait, cycleStores, dec >>

\* create_table_for_trial(trial_number)
auto_create ==
    /\ pc = "a_create"
    /\ \/ /\ pc' = "a_read"
          /\ UNCHANGED << exc, cleanCycle, trialLog >>
       \/ AutoRaise("DatabaseError", TRUE)
    /\ UNCHANGED << collected, running, trial_number, nextTrial, can_queue, batch,
                    consecutive_readings, ret, ch, poll, readings, wait,
                    stores, nPushed, stopInAwait, stopInWait, cycleStores,
                    dec >>

\* What read_can_messages does when it returns: the acquisition pipeline has
\* pushed the frames it read, in order, and closed its handles.
auto_collect ==
    \E k \in 0..(MaxPushed - nPushed) :
        /\ can_queue' = can_queue \o [i \in 1..k |-> nPushed + i]
        /\ nPushed' = nPushed + k
        /\ pc' = "a_drain"

\* read_can_messages(trial_number, can_queue)
auto_read_can_messages ==
    /\ pc = "a_read"
    /\ \/ /\ AutoRaise("NameError", TRUE)
          /\ UNCHANGED << can_queue, nPushed >>
       \/ /\ auto_collect
          /\ UNCHANGED << exc, cleanCycle, trialLog >>
    /\ UNCHANGED << collected, running, trial_number, nextTrial, batch,
                    consecutive_readings, ret, ch, poll, readings, wait,
                    stores, stopInAwait, stopInWait, cycleStores, dec >>

\* batch = []
auto_drain ==
    /\ pc = "a_drain"
    /\ batch' = <<>>
    /\ pc' = "a_loop"
    /\ UNCHANGED << collected, running, trial_number, nextTrial, can_queue,
                    consecutive_readings, ret, exc, ch, poll, readings, wait,
                    stores, nPushed, cleanCycle, stopInAwait, stopInWait,
                    cycleStores, dec, trialLog >>

\* store_data_for_trial(b, trial_number) called by the exporting driver
auto_store(b, ok) ==
    /\ stores' = Append(stores, [trial |-> trial_number, batch |-> b, ok |-> ok])
    /\ cycleStores' = cycleStores + 1
    /\ IF ok THEN UNCHANGED << exc, cleanCycle, trialLog >>
             ELSE AutoRaise("DatabaseError", TRUE)

\* One pass of `while not can_queue.empty():`
auto_loop ==
    /\ pc = "a_loop"
    /\ IF can_queue # <<>>
       THEN LET b == Append(batch, QueueHead(can_queue))
            IN  /\ can_queue' = QueueRest(can_queue)
                /\ IF BatchFull(b)
                   THEN \E ok \in BOOLEAN :
                          /\ auto_store(b, ok)
                          /\ batch' = IF ok THEN <<>> ELSE b
                          /\ ok => pc' = "a_loop"
                   ELSE /\ batch' = b
                        /\ pc' = "a_loop"
                        /\ UNCHANGED << stores, cycleStores, exc, cleanCycle,
                                        trialLog >>
       ELSE /\ pc' = "a_final"
            /\ UNCHANGED << can_queue, batch, stores, cycleStores, exc,
                            cleanCycle, trialLog >>
    /\ UNCHANGED << collected, running, trial_number, nextTrial, consecutive_readings,
                    ret, ch, poll, readings, wait, nPushed, stopInAwait,
                    stopInWait, dec >>

\* if batch: store_data_for_trial(batch, trial_number)
auto_final ==
    /\ pc = "a_final"
    /\ IF FinalFlushNeeded(batch)
       THEN \E ok \in BOOLEAN :
              /\ auto_store(batch, ok)
              /\ ok => pc' = "a_export"
       ELSE /\ pc' = "a_export"
            /\ UNCHANGED << stores, cycleStores, exc, cleanCycle, trialLog >>
    /\ UNCHANGED << collected, running, trial_number, nextTrial, can_queue, batch,
                    consecutive_readings, ret, ch, poll, readings, wait,
                    nPushed, stopInAwait, stopInWait, dec >>

\* export_trial_to_csv(trial_number): the call is made; the function catches
\* its own errors, so it always returns.
export_trial_to_csv ==
    /\ pc = "a_export"
    /\ trialLog' = Append(trialLog, [trial |-> trial_number, how |-> "exported"])
    /\ pc' = "a_check"
    /\ UNCHANGED << collected, running, trial_number, nextTrial, can_queue, batch,
                    consecutive_readings, ret, exc, ch, poll, readings, wait,
                    stores, nPushed, cleanCycle, stopInAwait, stopInWait,
                    cycleStores, dec >>

\* except Exception as e: logging.error(...)
auto_except ==
    /\ pc = "a_except"
    /\ pc' = "a_backoff"
    /\ UNCHANGED << collected, running, trial_number, nextTrial, can_queue, batch,
                    consecutive_readings, ret, exc, ch, poll, readings, wait,
                    stores, nPushed, cleanCycle, stopInAwait, stopInWait,
                    cycleStores, dec, trialLog >>

\* time.sleep(5); continue
auto_backoff ==
    /\ pc = "a_backoff"
    /\ pc' = "a_check"
    /\ exc' = "none"
    /\ UNCHANGED << collected, running, trial_number, nextTrial, can_queue, batch,
                    consecutive_readings, ret, ch, poll, readings, wait,
                    stores, nPushed, cleanCycle, stopInAwait, stopInWait,
                    cycleStores, dec, trialLog >>

NextAuto ==
    \/ auto_signal_handler
    \/ auto_check
    \/ auto_trial
    \/ auto_create
    \/ auto_read_can_messages
    \/ auto_drain
    \/ auto_loop
    \/ auto_final
    \/ export_trial_to_csv
    \/ auto_except
    \/ auto_backoff

SpecAuto == InitAuto /\ [][NextAuto]_vars

\* ------------------------------------------------------------ properties
RECURSIVE AboveRun(_)
\* Number of trailing readings strictly greater than 100.
AboveRun(s) ==
    IF s = <<>> \/ ~(s[Len(s)] > 100) THEN 0
    ELSE 1 + AboveRun(SubSeq(s, 1, Len(s) - 1))

RECURSIVE BelowRun(_)
\* Number of trailing readings strictly less than 50.
BelowRun(s) ==
    IF s = <<>> \/ ~(s[Len(s)] < 50) THEN 0
    ELSE 1 + BelowRun(SubSeq(s, 1, Len(s) - 1))

\* C1: while detect_power is polling, its counter is the number of trailing
\* readings > 100 (a reading <= 100 puts it back to 0) and fewer than 3 such
\* readings have been seen in a row; it returns true exactly when the last 3
\* readings are > 100 and the run is no longer than 3 (so not later than the
\* first completion), and never returns false on a completed run.
C1_PowerOnExactlyAtThird ==
    wait = "on" =>
      /\ pc \in {"dp_check", "dp_read"} =>
            /\ consecutive_readings = AboveRun(readings)
            /\ AboveRun(readings) < 3
      /\ (pc = "rc_ret_power" /\ ret = "true") => AboveRun(readings) = 3
      /\ (pc = "rc_ret_power" /\ ret = "false") => AboveRun(readings) < 3

C1_Witness ==
    /\ pc = "rc_ret_power"
    /\ ret = "true"
    /\ readings = <<101, 101, 101>>

\* C2: the same for detect_power_off with readings < 50 (a reading >= 50,
\* 50 included, puts the counter back to 0).
C2_PowerOffExactlyAtThird ==
    wait = "off" =>
      /\ pc \in {"po_check", "po_read"} =>
            /\ consecutive_readings = BelowRun(readings)
            /\ BelowRun(readings) < 3
      /\ (pc = "rc_ret_off" /\ ret = "true") => BelowRun(readings) = 3
      /\ (pc = "rc_ret_off" /\ ret = "false") => BelowRun(readings) < 3

C2_Witness ==
    /\ pc = "rc_ret_off"
    /\ ret = "true"
    /\ readings = <<-1, -1, -1>>

\* C3: a poll of either wait that yields a frame with another id, or no
\* message, leaves consecutive_readings as it was and goes back to the loop
\* condition without returning.
C3_NoReadingKeepsCounter ==
    [][ (pc \in {"dp_read", "po_read"} /\ pc' # pc /\ poll' \in {"other", "nomsg"})
          => /\ consecutive_readings' = consecutive_readings
             /\ pc' = (IF pc = "dp_read" THEN "dp_check" ELSE "po_check")
             /\ ret' = "none" ]_vars

C3_Witness ==
    /\ pc \in {"dp_check", "po_check"}
    /\ poll \in {"other", "nomsg"}
    /\ consecutive_readings = 2

\* C4 (as stated): a wait during which the stop flag was raised returns
\* false when it returns, whatever reading its last poll produced.  (A bus
\* error raised by the poll itself is a failure of the bus, not of the
\* cancellation, and is left out of the statement.)
C4_StopReturnsFalse ==
    [][ (stopInWait /\ pc \in WaitPcs /\ pc' \in {"rc_ret_power", "rc_ret_off"})
          => ret' = "false" ]_vars

\* C4 (amended): the flag takes effect at the loop condition: a wait that
\* evaluates its loop condition with the flag raised returns false there.
C4_StopAtLoopCondition ==
    [][ (pc \in {"dp_check", "po_check"} /\ ~running /\ pc' # pc)
          => /\ pc' = (IF pc = "dp_check" THEN "rc_ret_power" ELSE "rc_ret_off")
             /\ ret' = "false"
             /\ exc' = exc ]_vars

C4_Witness ==
    /\ pc \in {"rc_ret_power", "rc_ret_off"}
    /\ stopInWait
    /\ ret = "false"
    /\ readings # <<>>

RECURSIVE Concat(_)
\* The batches of a sequence of store calls, one after the other.
Concat(calls) ==
    IF calls = <<>> THEN <<>>
    ELSE Concat(SubSeq(calls, 1, Len(calls) - 1)) \o calls[Len(calls)].batch

\* Frames are numbered in push order: the first n frames pushed.
FirstPushed(n) == [i \in 1..n |-> i]

\* C5: once the stop flag was raised during the power-on wait of a pass of
\* the outer loop, that pass makes no store_data_for_trial call.
C5_NoStoreAfterStopInAwait ==
    stopInAwait => cycleStores = 0

\* C6: no store call carries an empty batch, and a drain of N frames that ran
\* to its end made ceil(N/50) calls, all of 50 frames except a last one of
\* N mod 50 frames when that is not zero.
C6_BatchSizes ==
    /\ \A i \in 1..Len(stores) : Len(stores[i].batch) >= 1
    /\ pc = "m_check" =>
         LET k == Len(stores)
         IN  /\ k = (nPushed + 49) \div 50
             /\ \A i \in 1..k :
                  Len(stores[i].batch) =
                     IF i < k \/ nPushed % 50 = 0 THEN 50 ELSE nPushed % 50

C6_Witness ==
    /\ pc = "m_check"
    /\ nPushed = 123
    /\ Len(stores) = 3
    /\ Len(stores[1].batch) = 50
    /\ Len(stores[2].batch) = 50
    /\ Len(stores[3].batch) = 23

\* C7: the batches handed to store_data_for_trial, one after the other, are
\* the frames in push order: with the batch being filled and the frames still
\* queued they make up the pushed sequence, and after a drain that ran to its
\* end they are the pushed sequence.
C7_PushOrderKept ==
    /\ pc = "m_drain" => Concat(stores) \o can_queue = FirstPushed(nPushed)
    /\ pc \in {"m_loop", "m_final"} =>
          Concat(stores) \o batch \o can_queue = FirstPushed(nPushed)
    /\ (pc = "m_check" /\ cleanCycle) => Concat(stores) = FirstPushed(nPushed)
    /\ \A i \in 1..Len(Concat(stores)) : Concat(stores)[i] = i

C7_Witness ==
    /\ pc = "m_check"
    /\ Len(stores) = 3
    /\ stores[1].batch[50] = 50
    /\ stores[2].batch[1] = 51
    /\ stores[3].batch[1] = 101

\* C8: when the outer loop exits after a pass without exception, the queue is
\* empty and every frame ever pushed has been handed to store_data_for_trial.
C8_GracefulStopLosesNothing ==
    (pc = "exit" /\ cleanCycle) =>
        /\ can_queue = <<>>
        /\ Concat(stores) = FirstPushed(nPushed)

C8_Witness ==
    /\ pc = "exit"
    /\ cleanCycle
    /\ nPushed > 0
    /\ Len(stores[Len(stores)].batch) < 50
    /\ stores[Len(stores)].ok

\* C9: once the stop flag is raised the outer loop is eventually left, the
\* loop condition admits no further pass, and the exit is final.
C9_StopTerminates ==
    /\ (~running) ~> (pc = "exit")
    /\ [][ ~running => ~(pc = "m_check" /\ pc' = "m_trial") ]_vars
    /\ [][ pc = "exit" => pc' = "exit" ]_vars

C9_Witness ==
    /\ pc = "exit"
    /\ ~running
    /\ cycleStores > 0

\* C10: while the stop flag is not raised the outer loop is never left; every
\* error raised in a pass lands in the except clause, which is followed by the
\* backoff, the loop condition and the start of a new pass.
C10_ErrorsRestartTheLoop ==
    [][ /\ pc' # "crashed"
        /\ (pc # "exit" /\ pc' = "exit") => ~running
        /\ (exc = "none" /\ exc' # "none") => pc' = "m_except"
        /\ (pc = "m_except" /\ pc' # pc) => pc' = "m_backoff"
        /\ (pc = "m_backoff" /\ pc' # pc) => pc' = "m_check"
        /\ (pc = "m_check" /\ running /\ pc' # pc) => pc' = "m_trial" ]_vars

C10_Witness ==
    /\ pc = "m_trial"
    /\ running
    /\ can_queue # <<>>


\* Handles that are open.
OpenHandles == { o \in Owners : ch[o] \in {"on", "off"} }

\* C11: no handle that was set bus-on is ever closed without ch.busOff()
\* having been called on it, whatever path leaves the code that opened it.
C11_BusOffBeforeEveryClose ==
    \A o \in Owners : ch[o] # "dropped"

\* C12: at most one handle on the channel is open at any time.
C12_AtMostOneOpenHandle ==
    Cardinality(OpenHandles) <= 1


\* C13: for a frame with id 390 and 8 data bytes, the voltage the power waits
\* compare is the value decode_data gives for "DC Bus Voltage".
C13_WaitVoltageIsDecodedVoltage ==
    (dec.id = 390 /\ Len(dec.data) = 8 /\ dec.out.done /\ dec.volt.done) =>
        /\ ~dec.volt.raised
        /\ ~dec.out.raised
        /\ dec.volt.value = dec.out.values["DC Bus Voltage"].value

\* Entries of the field map with the given id whose byte index, or inclusive
\* pair of byte indices, lies inside a payload of n bytes.
FieldsInside(msg_id, n) ==
    { i \in DOMAIN value_range_map :
        /\ value_range_map[i].cob = msg_id
        /\ value_range_map[i].start < n
        /\ value_range_map[i].end < n }

\* C16: for every id and every payload length, decode_data does not raise
\* and returns one entry for each field of that id lying inside the payload
\* and none for any other field; every shorter prefix of the payload decodes
\* without raising to a subset of these entries.
C16_DecodeSkipsOutOfRange ==
    dec.out.done =>
        /\ ~dec.out.raised
        /\ DOMAIN dec.out.values =
             { value_range_map[i].name : i \in FieldsInside(dec.id, Len(dec.data)) }
        /\ Cardinality(DOMAIN dec.out.values) =
             Cardinality(FieldsInside(dec.id, Len(dec.data)))
        /\ \A k \in 0..Len(dec.data) :
             LET short == decode_data(dec.id, SubSeq(dec.data, 1, k))
             IN  /\ ~short.raised
                 /\ DOMAIN short.values \subseteq DOMAIN dec.out.values
                 /\ \A nm \in DOMAIN short.values :
                      short.values[nm] = dec.out.values[nm]

\* A 902 frame of three bytes: both single-byte fields are decoded, the pair
\* (2, 3) that sticks out of the payload is skipped.
C16_Witness ==
    /\ dec.out.done
    /\ dec.id = 902
    /\ Len(dec.data) = 3
    /\ ~dec.out.raised
    /\ Cardinality(DOMAIN dec.out.values) = 2

\* C17: every S16 field lying inside the payload decodes to the big-endian
\* two's-complement value of its two bytes: hi*256 + lo below 32768, and
\* hi*256 + lo - 65536 from there on.
C17_S16BigEndianTwosComplement ==
    dec.out.done =>
        \A i \in FieldsInside(dec.id, Len(dec.data)) :
            value_range_map[i].type = "S16" =>
                LET hi == dec.data[value_range_map[i].start + 1]
                    lo == dec.data[value_range_map[i].end + 1]
                    v == dec.out.values[value_range_map[i].name].value
                IN  /\ ~dec.out.raised
                    /\ (hi * 256 + lo < 32768) => v = hi * 256 + lo
                    /\ (hi * 256 + lo >= 32768) => v = hi * 256 + lo - 65536

\* Bytes [0x80, 0x00] at range (0, 1) of a 646 frame have been decoded
\* to -32768.
C17_Witness ==
    /\ dec.out.done
    /\ dec.id = 646
    /\ Len(dec.data) >= 2
    /\ dec.data[1] = 128
    /\ dec.data[2] = 0
    /\ dec.out.values["Internal Speed Reference"].value = -32768

\* Bytes [0x7F, 0xFF] at range (0, 1) have been decoded to 32767.
C17_WitnessMax ==
    /\ dec.out.done
    /\ dec.id = 646
    /\ Len(dec.data) >= 2
    /\ dec.data[1] = 127
    /\ dec.data[2] = 255
    /\ dec.out.values["Internal Speed Reference"].value = 32767

\* C18: the field with nominal range "0-15" (902, byte 1) decodes to the low
\* four bits of its byte, so the value lies in 0..15.
C18_NibbleLow ==
    (dec.out.done /\ dec.id = 902 /\ Len(dec.data) >= 2) =>
        /\ ~dec.out.raised
        /\ dec.out.values["Current limit: actual limit type"].range = "0-15"
        /\ dec.out.values["Current limit: actual limit type"].value = dec.data[2] % 16
        /\ dec.out.values["Current limit: actual limit type"].value \in 0..15

\* Positions inside read_can_messages after detect_power returned True.
CollectingPcs ==
    {"rc_open", "rc_check", "rc_read", "rc_ret_off", "po_open", "po_check", "po_read"}

\* C14: in the collecting loop the power-off wait is called after a read
\* that pushed a frame and after no other read; a read without a message
\* leaves the queue alone and goes back to the loop condition; collecting
\* passes to draining only when the power-off wait returned True, when the
\* loop condition finds the stop flag raised, or on an interrupt in the read.
C14_CollectingLoop ==
    [][ /\ (pc = "rc_read" /\ can_queue' # can_queue) =>
              /\ pc' = "po_open"
              /\ can_queue' = Append(can_queue, nPushed')
        /\ (pc # "po_open" /\ pc' = "po_open") =>
              /\ pc = "rc_read"
              /\ Len(can_queue') = Len(can_queue) + 1
        /\ (pc = "rc_read" /\ pc' = "rc_check") => can_queue' = can_queue
        /\ (pc \in CollectingPcs /\ pc' = "m_drain") =>
              \/ pc = "rc_ret_off" /\ ret = "true"
              \/ pc = "rc_check" /\ ~running
              \/ pc = "rc_read" /\ can_queue' = can_queue
      ]_vars

\* The power-off wait has been called with the frame just read on the queue
\* and the collecting handle still on the bus.
C14_Witness ==
    /\ pc = "po_open"
    /\ ch["rc"] = "on"
    /\ Len(can_queue) >= 1

\* Store calls made before the present pass of the outer loop, and those
\* made in it.
EarlierStores == 1..(Len(stores) - cycleStores)
PassStores == (Len(stores) - cycleStores + 1)..Len(stores)

\* C15, the calls: every store call of the present pass carries the pass's
\* trial number, and no call of an earlier pass carries the number of a call
\* of the present pass.  (Holding in every state, this separates the numbers
\* of any two passes.)
C15_StoresCarryPassNumber ==
    /\ \A j \in PassStores : stores[j].trial = trial_number
    /\ \A i \in EarlierStores : \A j \in PassStores :
           stores[i].trial # stores[j].trial

\* Two passes have made store calls.
C15_Witness ==
    /\ pc = "m_check"
    /\ PassStores # {}
    /\ EarlierStores # {}

\* C15, the order: the power-on wait is entered only from the table
\* creation, and the table creation only with a number obtained in this pass
\* that differs from the previous one and from the number of every store
\* call made so far.
C15_NewTrialBeforeAwaitingPower ==
    [][ /\ (pc # "dp_open" /\ pc' = "dp_open") => pc = "m_create"
        /\ (pc # "m_create" /\ pc' = "m_create") =>
              /\ pc = "m_trial"
              /\ trial_number' = nextTrial
              /\ trial_number' # trial_number
              /\ \A i \in DOMAIN stores : stores[i].trial # trial_number'
      ]_vars

\* The power-on wait of the second pass is entered with the second number.
C15_WitnessOrder ==
    /\ pc = "dp_open"
    /\ trial_number = 2
    /\ stores # <<>>

\* C15: every pass obtains a new trial number and creates its table before
\* the power-on wait, every store call of the pass carries that number, and
\* no number serves the store calls of two passes.
C15_TrialNumbers ==
    []C15_StoresCarryPassNumber /\ C15_NewTrialBeforeAwaitingPower

\* Positions of the power-on wait inside read_can_messages.
AwaitingPowerPcs == {"dp_open", "dp_check", "dp_read", "rc_ret_power"}

\* C20: a store call is made only by the batching loop or the final flush of
\* main, after read_can_messages has returned and with no channel handle
\* open; the queue grows only in the read step of the collecting loop and
\* shrinks only in the batching loop, so it never has a producer and a
\* consumer at work together.
C20_StoresAfterCollecting ==
    [][ /\ stores' # stores =>
              /\ pc \in {"m_loop", "m_final"}
              /\ pc \notin AwaitingPowerPcs \cup CollectingPcs
              /\ OpenHandles = {}
        /\ Len(can_queue') > Len(can_queue) => pc = "rc_read"
        /\ Len(can_queue') < Len(can_queue) =>
              /\ pc = "m_loop"
              /\ OpenHandles = {}
      ]_vars

\* The final flush has stored the frame of a pass whose collecting loop was
\* entered and left.
C20_Witness ==
    /\ pc = "m_check"
    /\ cycleStores = 1
    /\ nPushed >= 1
    /\ can_queue = <<>>
    /\ OpenHandles = {}

\* Entries of the trial log that are export calls.
Exported == { i \in DOMAIN trialLog : trialLog[i].how = "exported" }

\* C19, the log: no trial is exported twice, and no trial whose pass ended
\* with an exception is exported.
C19_ExportedTrials ==
    /\ \A i \in Exported : \A j \in Exported :
           i # j => trialLog[i].trial # trialLog[j].trial
    /\ \A i \in Exported : \A j \in DOMAIN trialLog :
           trialLog[j].how = "failed" => trialLog[i].trial # trialLog[j].trial

\* C19, the order: the export call is made by the statement after the final
\* flush, for the trial of the pass, with the queue drained and no exception
\* in the pass; and no store call is made for a trial already exported.
C19_ExportAfterStores ==
    [][ /\ Exported' # Exported =>
              /\ pc = "a_export"
              /\ cleanCycle
              /\ can_queue = <<>>
              /\ stores' = stores
              /\ trialLog' = Append(trialLog,
                                    [trial |-> trial_number, how |-> "exported"])
              /\ \A j \in PassStores : stores[j].ok
        /\ (pc # "a_export" /\ pc' = "a_export") => pc = "a_final"
        /\ stores' # stores =>
              \A i \in Exported : trialLog[i].trial # trial_number
      ]_vars

C19_WitnessFailed ==
    /\ Exported # {}
    /\ \E j \in DOMAIN trialLog : trialLog[j].how = "failed"

\* C21: while no KeyboardInterrupt was raised inside its power-off wait, a
\* collecting loop pushes at most one frame, and the power-off wait called
\* after that frame comes back either with power-off detected or with the
\* stop flag raised.
C21_OneFramePerCollecting ==
    ~collected.kbint =>
        /\ collected.pushed <= 1
        /\ pc = "rc_ret_off" => (ret = "true" \/ ~running)
        /\ (pc = "rc_read" \/ (pc = "rc_check" /\ running)) => collected.pushed = 0

\* The power-off wait called after the first frame has come back because of
\* the stop flag; the loop is at its condition with one frame pushed.
C21_Witness ==
    /\ pc = "rc_check"
    /\ ~running
    /\ collected = [pushed |-> 1, kbint |-> FALSE]

\* The power-off wait has come back with power-off detected.
C21_WitnessPowerOff ==
    /\ pc = "rc_ret_off"
    /\ ret = "true"
    /\ running
    /\ collected = [pushed |-> 1, kbint |-> FALSE]

\* The case the claim sets aside: after a KeyboardInterrupt inside the
\* power-off wait the loop has read and pushed a second frame.
C21_WitnessInterrupted ==
    /\ collected.kbint
    /\ collected.pushed = 2

\* C22: the queue is empty whenever a pass enters the power-on wait, so that
\* the frames a pass stores are the frames its own collecting loop read.
C22_QueueEmptyAtAwaitingPower ==
    pc = "dp_open" => can_queue = <<>>

\* Every frame handed to a store call, waiting in the batch or on the queue.
KeptFrames ==
    { Concat(stores)[i] : i \in DOMAIN Concat(stores) }
        \cup { batch[i] : i \in DOMAIN batch }
        \cup { can_queue[i] : i \in DOMAIN can_queue }

\* C23, the frames: every frame stored, batched or queued is one that the
\* collecting loop's own read pushed.
C23_OnlyCollectedFramesKept ==
    KeptFrames \subseteq 1..nPushed

\* C23, the steps: no step of a power wait touches the queue, the batch or
\* the store calls, and the queue grows only by the collecting loop's read
\* putting the frame it has just read.
C23_WaitsPushNothing ==
    [][ /\ pc \in WaitPcs =>
              /\ can_queue' = can_queue
              /\ batch' = batch
              /\ stores' = stores
              /\ nPushed' = nPushed
        /\ Len(can_queue') > Len(can_queue) =>
              /\ pc = "rc_read"
              /\ nPushed' = nPushed + 1
              /\ can_queue' = Append(can_queue, nPushed')
      ]_vars

\* C23: a frame read by the power-on wait or by the power-off wait is never
\* put on the queue and never stored; only the frames read by the collecting
\* loop are.
C23_WaitFramesNotKept ==
    []C23_OnlyCollectedFramesKept /\ C23_WaitsPushNothing

\* The power-off wait has returned True on its third reading; the queue
\* holds the one frame of the collecting loop and none of the readings.
C23_Witness ==
    /\ pc = "rc_ret_off"
    /\ ret = "true"
    /\ Len(readings) >= required_readings
    /\ can_queue = <<nPushed>>
    /\ collected.pushed = 1

\* A pass that went through both waits has stored exactly its one frame.
C23_WitnessStored ==
    /\ pc = "m_check"
    /\ cleanCycle
    /\ cycleStores = 1
    /\ nPushed = 1
    /\ Concat(stores) = <<1>>

====
